---- MODULE Spec2Model ----
(***************************************************************************)
(* Model of the conversational AI core of LL-app-V000.                     *)
(*                                                                         *)
(*  - SpecChat : src/app/api/chat/route.ts, the POST handler of /api/chat  *)
(*               (session check, JSON parse, zod validation, API key       *)
(*               checks, streamText, error mapping of the stream).         *)
(*  - SpecTwin : docs/technical/ai/streaming.md, the twin-chat handler     *)
(*               (context queries, system prompt, streamText with tools    *)
(*               and stopWhen: stepCountIs(5)).                            *)
(*  - SpecOffer: docs/technical/ai/structured-data.md, the generate-offer  *)
(*               handler with output validation (offerSchema.safeParse).   *)
(*                                                                         *)
(* A text is a sequence of tokens (strings); includes / startsWith / trim  *)
(* work on tokens.                                                         *)
(***************************************************************************)
EXTENDS Integers, Sequences, FiniteSets, TLC

VARIABLES
    \* ---- /api/chat (route.ts)
    apiKeyEnv,       \* process.env.OPENROUTER_API_KEY
    chatReq,         \* the request being (or last) handled
    chatStatus,      \* HTTP status of the response (0: no response yet)
    chatError,       \* "error" field of a JSON error response (<<>>: none)
    streamTextCalls, \* number of streamText invocations so far
    chatPhase,       \* state of the response stream of the current turn
    chatChunks,      \* text chunks streamed in the current turn
    lastError,       \* the error value handed to onError (NoError: none)
    errorText,       \* what onError returned for it (sent to the client)
    chatLogged,      \* console.error calls of streamText's onError
    chatProduced,    \* the events streamText produced in the current turn
    chatWritten,     \* the events written to the client in the current turn
    chatPosts,       \* requests handled so far
    \* ---- /api/twin-chat (docs/technical/ai/streaming.md)
    store,           \* the persisted cards, twins, products and promotions
    stopWhenSet,     \* whether streamText is given stopWhen: stepCountIs(5)
    providerMode,    \* "free", or "alwaysTool": every response asks for a tool
    twReq,           \* cardId of the request being (or last) handled
    twOutcome,       \* "none", "TypeError" (the handler threw) or "stream"
    bundle,          \* the rows the handler read for the request
    systemPrompt,    \* the system prompt built from them
    twPhase,         \* state of the turn
    twQueries,       \* context queries of the request that have returned
    twSent,          \* the system prompt of the latest provider request
    twLastEvent,     \* type of the latest event of the turn's stream
    twSteps,         \* provider requests issued in the turn
    twChunks,        \* text chunks of the current step
    twPending,       \* the tool call being processed
    twToolExecs,     \* tool executions of the turn
    twLoops,         \* tool results fed back into a next provider request
    twHistory,       \* tool results appended to the message history
    twPosts,         \* requests handled so far
    \* ---- /api/ai/generate-offer (docs/technical/ai/structured-data.md)
    offerReq,        \* the request being (or last) handled
    provOut,         \* what generateObject gave for it
    offerStatus,     \* HTTP status of the response (0: no response yet)
    offerResp,       \* the JSON body of the response
    offerPrev,       \* status and body of the response before that one
    offerSame,       \* whether the last two calls had the same request and output
    offerPosts,      \* requests handled so far
    \* ---- /api/chat handled for several clients at once
    turns,           \* the state of each client's invocation of POST
    concActor,       \* the client whose invocation took the latest step
    \* ---- MerchantTable (super-admin/components/merchant-table.tsx)
    tableMerchants,  \* the merchants prop
    searchQuery,     \* the text of the search box
    currentPage,     \* the page shown
    \* ---- GeoHierarchyTree (super-admin/components, src/unnamed/part_000)
    treeData,        \* the data prop: root ids and the nodes by id
    onSelectGiven,   \* whether the optional onSelect prop is passed
    expanded,        \* the set of expanded ids
    treeClicks,      \* the ids of the nodes clicked so far, in order
    selectCalls,     \* the ids of the nodes onSelect was called with, in order
    \* ---- MerchantMap (super-admin/components, src/unnamed/part_001)
    mapboxToken,     \* whether NEXT_PUBLIC_MAPBOX_TOKEN is a non-empty string
    mapMerchants,    \* the merchants prop
    filters,         \* [active, pending, suspended]
    selectedMerchant,\* {} for null, {m} for the merchant of the popup
    toggledOdd,      \* per flag: its checkbox was toggled an odd number of times
    markerClickArg   \* {} or {m}: the merchant of the latest onMerchantClick call

chatVars == << apiKeyEnv, chatReq, chatStatus, chatError, streamTextCalls,
               chatPhase, chatChunks, lastError, errorText, chatLogged,
               chatProduced, chatWritten, chatPosts >>

twinVars == << store, stopWhenSet, providerMode, twReq, twOutcome, bundle,
               systemPrompt, twPhase, twQueries, twSent, twLastEvent, twSteps,
               twChunks, twPending, twToolExecs, twLoops, twHistory, twPosts >>

offerVars == << offerReq, provOut, offerStatus, offerResp, offerPrev, offerSame,
                offerPosts >>

concVars == << turns, concActor >>

coreVars == << chatVars, twinVars, offerVars, concVars >>

tableVars == << tableMerchants, searchQuery, currentPage >>

treeVars == << treeData, onSelectGiven, expanded, treeClicks, selectCalls >>

mapVars == << mapboxToken, mapMerchants, filters, selectedMerchant, toggledOdd, markerClickArg >>

uiVars == << tableVars, treeVars, mapVars >>

vars == << coreVars, uiVars >>

----------------------------------------------------------------------------
(* Bounds of the model *)

MaxTurns == 2
MaxChunks == 1
MaxFlaws == 2

----------------------------------------------------------------------------
(* Texts as token sequences *)

RECURSIVE TrimStart(_)
TrimStart(s) ==
    IF s # <<>> /\ Head(s) = " " THEN TrimStart(Tail(s)) ELSE s

RECURSIVE TrimEnd(_)
TrimEnd(s) ==
    IF s # <<>> /\ s[Len(s)] = " " THEN TrimEnd(SubSeq(s, 1, Len(s) - 1)) ELSE s

Trim(s) == TrimEnd(TrimStart(s))

StartsWith(s, tok) == s # <<>> /\ Head(s) = tok

Includes(s, tok) == \E i \in 1..Len(s) : s[i] = tok

----------------------------------------------------------------------------
(* getOpenRouterFriendlyError *)

AuthMsg ==
    << "OpenRouter authentication failed (401).", " ",
       "Check your OPENROUTER_API_KEY in .env (it should start with 'sk-or-v1-'), then restart the dev server." >>

RateMsg == << "OpenRouter rate limit hit (429). Please wait a bit and try again." >>

UnknownMsg == << "Unknown AI error." >>

UserNotFoundTok == "\"User not found\""

\* An optional number: {} is undefined, {n} is the number n
Undefined == {}

Num(n) == {n}

\* statusCode of an error value
StatusCodes == { Undefined, Num(401), Num(429), Num(500) }

\* responseBody of an error value: absent, not a string, or a text
BodyTexts ==
    { << "{\"error\":{\"message\":", UserNotFoundTok, "}}" >>,
      << "{\"error\":{\"message\":", "\"Rate limit exceeded\"", "}}" >> }

ResponseBodies ==
    { [kind |-> "undefined", text |-> <<>>], [kind |-> "number", text |-> <<>>] }
    \cup { [kind |-> "string", text |-> t] : t \in BodyTexts }

\* message of an Error instance, or the value of a thrown string
RawMessages == { << "User not found." >>, << "socket hang up" >> }

\* error: unknown. An Error instance or a plain object carries statusCode and
\* responseBody; a string carries its value in message; null carries nothing.
ErrorValues ==
    { [kind |-> k, statusCode |-> sc, responseBody |-> rb, message |-> m] :
        k \in {"Error"}, sc \in StatusCodes, rb \in ResponseBodies, m \in RawMessages }
    \cup
    { [kind |-> k, statusCode |-> sc, responseBody |-> rb, message |-> <<>>] :
        k \in {"object"}, sc \in StatusCodes, rb \in ResponseBodies }
    \cup
    { [kind |-> "string", statusCode |-> Undefined,
       responseBody |-> [kind |-> "undefined", text |-> <<>>], message |-> m] :
        m \in RawMessages }
    \cup
    { [kind |-> "null", statusCode |-> Undefined,
       responseBody |-> [kind |-> "undefined", text |-> <<>>], message |-> <<>>] }

NoError ==
    [kind |-> "none", statusCode |-> Undefined,
     responseBody |-> [kind |-> "undefined", text |-> <<>>], message |-> <<>>]

IsObjectErr(e) == e.kind \in {"Error", "object"}

\* line 15
StatusCodeOf(e) == IF IsObjectErr(e) THEN e.statusCode ELSE Undefined

\* lines 16-19: the body when it is a string, else undefined (<<>> never includes)
ResponseBodyOf(e) ==
    IF IsObjectErr(e) /\ e.responseBody.kind = "string"
    THEN e.responseBody
    ELSE [kind |-> "undefined", text |-> <<>>]

\* line 22
IsAuthError(e) ==
    \/ StatusCodeOf(e) = Num(401)
    \/ /\ ResponseBodyOf(e).kind = "string"
       /\ Includes(ResponseBodyOf(e).text, UserNotFoundTok)

\* a version that returns an Error's own message before looking at the status
RawMessageFirstError(e) ==
    IF e.kind = "Error" THEN e.message
    ELSE IF IsAuthError(e) THEN AuthMsg
    ELSE IF StatusCodeOf(e) = Num(429) THEN RateMsg
    ELSE IF e.kind = "string" THEN e.message
    ELSE UnknownMsg

getOpenRouterFriendlyError(e) ==
    IF IsAuthError(e) THEN AuthMsg
    ELSE IF StatusCodeOf(e) = Num(429) THEN RateMsg
    ELSE IF e.kind = "Error" THEN e.message
    ELSE IF e.kind = "string" THEN e.message
    ELSE UnknownMsg

----------------------------------------------------------------------------
(* chatRequestSchema: request bodies and their validation *)

MaxTextLen == 10000

MaxMessages == 100

\* a string is modelled by its length
TextLens == { MaxTextLen, MaxTextLen + 1 }

\* one element of parts / of an array content: {type?, text?}
PartShapes ==
    { [hasType |-> t, text |-> [present |-> FALSE, len |-> 0]] : t \in BOOLEAN }
    \cup
    { [hasType |-> t, text |-> [present |-> TRUE, len |-> l]] :
        t \in BOOLEAN, l \in TextLens }

\* an array of parts, by the set of shapes of its elements
PartArrays == { {} } \cup { {p} : p \in PartShapes }

PartsValues ==
    { [present |-> FALSE, items |-> {}] }
    \cup { [present |-> TRUE, items |-> a] : a \in PartArrays }

\* content: absent, a string, or an array of parts
ContentValues ==
    { [kind |-> "absent", len |-> 0, items |-> {}],
      [kind |-> "string", len |-> MaxTextLen + 1, items |-> {}],
      [kind |-> "array", len |-> 0, items |-> {}] }
    \cup
    { [kind |-> "array", len |-> 0,
       items |-> {[hasType |-> TRUE, text |-> [present |-> TRUE, len |-> l]]}] :
        l \in TextLens }

\* "tool" stands for any role outside the enum
Roles == { "user", "tool" }

MessageShapes ==
    { [role |-> r, parts |-> p, content |-> c] :
        r \in Roles, p \in PartsValues, c \in ContentValues }

MsgCounts == { MaxMessages, MaxMessages + 1 }

\* a parsed JSON body: a non-object, or an object whose "messages" is absent,
\* something else than an array, or an array of n messages of the given shapes
EmptyMessages == [present |-> FALSE, isArray |-> FALSE, n |-> 0, shapes |-> {}]

BodyValues ==
    { [isObject |-> FALSE, messages |-> EmptyMessages],
      [isObject |-> TRUE, messages |-> EmptyMessages],
      [isObject |-> TRUE,
       messages |-> [present |-> TRUE, isArray |-> FALSE, n |-> 0, shapes |-> {}]],
      [isObject |-> TRUE,
       messages |-> [present |-> TRUE, isArray |-> TRUE, n |-> 0, shapes |-> {}]] }
    \cup
    { [isObject |-> TRUE,
       messages |-> [present |-> TRUE, isArray |-> TRUE, n |-> k, shapes |-> {m}]] :
        k \in MsgCounts, m \in MessageShapes }

\* messagePartSchema, lines 39-42
messagePartSchema(p) ==
    /\ p.hasType
    /\ p.text.present => p.text.len <= MaxTextLen

\* messageSchema, lines 44-49
messageSchema(m) ==
    /\ m.role \in { "user", "assistant", "system" }
    /\ m.parts.present => \A p \in m.parts.items : messagePartSchema(p)
    /\ m.content.kind = "array" => \A p \in m.content.items : messagePartSchema(p)

\* a version without .max(100) on the messages array
AnyCountRequestSchema(b) ==
    /\ b.isObject
    /\ b.messages.present /\ b.messages.isArray
    /\ \A m \in b.messages.shapes : messageSchema(m)

\* chatRequestSchema, lines 51-53
chatRequestSchema(b) ==
    /\ b.isObject
    /\ b.messages.present /\ b.messages.isArray
    /\ b.messages.n <= MaxMessages
    /\ \A m \in b.messages.shapes : messageSchema(m)

----------------------------------------------------------------------------
(* POST /api/chat *)

NoBody == [isObject |-> FALSE, messages |-> EmptyMessages]

\* a request: whether getSession finds a session, whether req.json() parses,
\* and the parsed body
Requests ==
    { [session |-> s, jsonOk |-> FALSE, body |-> NoBody] : s \in BOOLEAN }
    \cup { [session |-> s, jsonOk |-> TRUE, body |-> b] : s \in BOOLEAN, b \in BodyValues }

NoRequest == [session |-> FALSE, jsonOk |-> FALSE, body |-> NoBody]

\* process.env.OPENROUTER_API_KEY: unset, or a text
EnvKeys ==
    { [set |-> FALSE, val |-> <<>>] }
    \cup
    { [set |-> TRUE, val |-> v] :
        v \in { <<>>, << " " >>, << "k3y" >>, << "your-key" >>,
                << "sk-or-v1-", "k3y" >>, << " ", "sk-or-v1-", "k3y", " " >>,
                << "sk-or-v1-", "your-key" >>, << "k3y", "sk-or-v1-" >> } }

\* line 93: process.env.OPENROUTER_API_KEY?.trim()
apiKeyOf(env) == IF env.set THEN Trim(env.val) ELSE <<>>

\* a check of the prefix only
KeyShapeOkPrefixOnly(k) == StartsWith(k, "sk-or-v1-")

\* line 102
KeyShapeOk(k) == StartsWith(k, "sk-or-v1-") /\ ~Includes(k, "your-key")

ErrUnauthorized == << "Unauthorized" >>

ErrInvalidJson == << "Invalid JSON" >>

ErrInvalidRequest == << "Invalid request" >>

ErrKeyMissing == << "OpenRouter API key not configured. Set OPENROUTER_API_KEY in .env" >>

ErrKeyInvalid ==
    << "Invalid OPENROUTER_API_KEY. Paste a real OpenRouter key (starts with 'sk-or-v1-') into your .env and restart the dev server." >>

JsonError(code, msg) == [status |-> code, error |-> msg, stream |-> FALSE]

\* a handler without the session check
PostResponseNoSession(r, env) ==
    IF ~r.jsonOk THEN JsonError(400, ErrInvalidJson)
    ELSE IF ~chatRequestSchema(r.body) THEN JsonError(400, ErrInvalidRequest)
    ELSE IF apiKeyOf(env) = <<>> THEN JsonError(500, ErrKeyMissing)
    ELSE IF ~KeyShapeOk(apiKeyOf(env)) THEN JsonError(500, ErrKeyInvalid)
    ELSE [status |-> 200, error |-> <<>>, stream |-> TRUE]

\* a handler that looks at the key before it reads the body
PostResponseKeyFirst(r, env) ==
    IF ~r.session THEN JsonError(401, ErrUnauthorized)
    ELSE IF apiKeyOf(env) = <<>> THEN JsonError(500, ErrKeyMissing)
    ELSE IF ~KeyShapeOk(apiKeyOf(env)) THEN JsonError(500, ErrKeyInvalid)
    ELSE IF ~r.jsonOk THEN JsonError(400, ErrInvalidJson)
    ELSE IF ~chatRequestSchema(r.body) THEN JsonError(400, ErrInvalidRequest)
    ELSE [status |-> 200, error |-> <<>>, stream |-> TRUE]

\* lines 56-135: the response of POST, by the first check that fails
PostResponse(r, env) ==
    IF ~r.session THEN JsonError(401, ErrUnauthorized)
    ELSE IF ~r.jsonOk THEN JsonError(400, ErrInvalidJson)
    ELSE IF ~chatRequestSchema(r.body) THEN JsonError(400, ErrInvalidRequest)
    ELSE IF apiKeyOf(env) = <<>> THEN JsonError(500, ErrKeyMissing)
    ELSE IF ~KeyShapeOk(apiKeyOf(env)) THEN JsonError(500, ErrKeyInvalid)
    ELSE [status |-> 200, error |-> <<>>, stream |-> TRUE]

\* an error that is a string
StringValue(t) ==
    [kind |-> "string", statusCode |-> Undefined,
     responseBody |-> [kind |-> "undefined", text |-> <<>>], message |-> t]

\* an event of the result stream: a text chunk, the end of the response, or an
\* error with the value that was thrown
TextDelta == [type |-> "text-delta", error |-> NoError]

FinishEvent == [type |-> "finish", error |-> NoError]

ErrorEvent(e) == [type |-> "error", error |-> e]

\* a response stream without the onError option: every error is masked
WriteEventMasked(ev) ==
    IF ev.type = "error" THEN ErrorEvent(StringValue(<< "An error occurred." >>)) ELSE ev

\* lines 126-135: toUIMessageStreamResponse({ onError }) writes an event as it
\* is, and an error as the text onError returns for it
WriteEvent(ev) ==
    IF ev.type = "error"
    THEN ErrorEvent(StringValue(getOpenRouterFriendlyError(ev.error)))
    ELSE ev

ChatIdle == chatPhase # "Streaming"

\* POST(req): every check, then streamText and toUIMessageStreamResponse
Post(r) ==
    /\ ChatIdle
    /\ chatPosts < MaxTurns
    /\ chatPosts' = chatPosts + 1
    /\ LET resp == PostResponse(r, apiKeyEnv) IN
        /\ chatReq' = r
        /\ chatStatus' = resp.status
        /\ chatError' = resp.error
        /\ streamTextCalls' = IF resp.stream THEN streamTextCalls + 1 ELSE streamTextCalls
        /\ chatPhase' = IF resp.stream THEN "Streaming" ELSE "Idle"
    /\ chatChunks' = 0
    /\ lastError' = NoError
    /\ errorText' = <<>>
    /\ chatProduced' = <<>>
    /\ chatWritten' = <<>>
    /\ UNCHANGED << apiKeyEnv, chatLogged, twinVars, offerVars, concVars, uiVars >>

\* the provider delivers a text chunk, forwarded to the client
ChatTextChunk ==
    /\ chatPhase = "Streaming"
    /\ chatChunks < MaxChunks
    /\ chatChunks' = chatChunks + 1
    /\ chatProduced' = Append(chatProduced, TextDelta)
    /\ chatWritten' = Append(chatWritten, WriteEvent(TextDelta))
    /\ UNCHANGED << apiKeyEnv, chatReq, chatStatus, chatError, streamTextCalls,
                    chatPhase, lastError, errorText, chatLogged, chatPosts, twinVars, offerVars, concVars, uiVars >>

\* the provider ends its response
ChatFinish ==
    /\ chatPhase = "Streaming"
    /\ chatPhase' = "Completed"
    /\ chatProduced' = Append(chatProduced, FinishEvent)
    /\ chatWritten' = Append(chatWritten, WriteEvent(FinishEvent))
    /\ UNCHANGED << apiKeyEnv, chatReq, chatStatus, chatError, streamTextCalls,
                    chatChunks, lastError, errorText, chatLogged, chatPosts, twinVars, offerVars, concVars, uiVars >>

\* the provider call fails with e: streamText's onError logs it (lines 120-123)
\* and the response stream's onError maps it to the client's text (line 134)
ChatProviderError(e) ==
    /\ chatPhase = "Streaming"
    /\ chatPhase' = "Failed"
    /\ lastError' = e
    /\ errorText' = getOpenRouterFriendlyError(e)
    /\ chatLogged' = chatLogged + 1
    /\ chatProduced' = Append(chatProduced, ErrorEvent(e))
    /\ chatWritten' = Append(chatWritten, WriteEvent(ErrorEvent(e)))
    /\ UNCHANGED << apiKeyEnv, chatReq, chatStatus, chatError, streamTextCalls,
                    chatChunks, chatPosts, twinVars, offerVars, concVars, uiVars >>

ChatInit ==
    /\ apiKeyEnv \in EnvKeys
    /\ chatReq = NoRequest
    /\ chatStatus = 0
    /\ chatError = <<>>
    /\ streamTextCalls = 0
    /\ chatPhase = "Idle"
    /\ chatChunks = 0
    /\ lastError = NoError
    /\ errorText = <<>>
    /\ chatLogged = 0
    /\ chatProduced = <<>>
    /\ chatWritten = <<>>
    /\ chatPosts = 0

ChatNext ==
    \/ \E r \in Requests : Post(r)
    \/ ChatTextChunk
    \/ ChatFinish
    \/ \E e \in ErrorValues : ChatProviderError(e)

----------------------------------------------------------------------------
(* POST /api/twin-chat *)

MaxSteps == 5

CardIds == { "c1", "c2" }

ToolNames == { "getOffers", "getProducts", "bookAppointment" }

\* the persistence store: the ids with a cards row and with a cardDigitalTwins
\* row, the product names and the promotion discounts of each id
EmptyStore ==
    [cards |-> {}, twins |-> {},
     products |-> [c \in CardIds |-> {}], offers |-> [c \in CardIds |-> {}]]

Stores ==
    { EmptyStore,
      [cards |-> {"c1"}, twins |-> {},
       products |-> [c \in CardIds |-> {}], offers |-> [c \in CardIds |-> {}]],
      [cards |-> {"c1"}, twins |-> {"c1"},
       products |-> [c \in CardIds |-> IF c = "c1" THEN {"latte"} ELSE {}],
       offers |-> [c \in CardIds |-> IF c = "c1" THEN {20} ELSE {}]] }

NoBundle == [card |-> {}, twin |-> {}, products |-> {}, offers |-> {}]

NoPrompt == [built |-> FALSE, business |-> {}, personality |-> "", products |-> {}, offers |-> {}]

NoCall == [name |-> "", step |-> 0]

\* lines 82-102: the four queries, awaited one after the other
Queries == << "cards", "cardDigitalTwins", "products", "promotions" >>

\* what the four queries give on one store; [card] and [twin] are undefined
\* ({}) when no row matches
ReadContext(st, cardId) ==
    [card |-> {cardId} \cap st.cards,
     twin |-> {cardId} \cap st.twins,
     products |-> st.products[cardId],
     offers |-> st.offers[cardId]]

\* the rows held once the query of one table has returned
ReadTable(b, st, cardId, table) ==
    CASE table = "cards" -> [b EXCEPT !.card = ReadContext(st, cardId).card]
      [] table = "cardDigitalTwins" -> [b EXCEPT !.twin = ReadContext(st, cardId).twin]
      [] table = "products" -> [b EXCEPT !.products = ReadContext(st, cardId).products]
      [] OTHER -> [b EXCEPT !.offers = ReadContext(st, cardId).offers]

\* a persona query that creates the missing row (get-or-create)
StoreAfterUpsert(st, cardId, table) ==
    IF table = "cardDigitalTwins"
    THEN [st EXCEPT !.twins = @ \cup {cardId}]
    ELSE st

\* db.select(): the store after a query
StoreAfterQuery(st, cardId, table) == st

\* lines 108-129: the template reads card.businessName
PromptThrows(b) == b.card = {}

buildSystemPrompt(b) ==
    [built |-> TRUE,
     business |-> b.card,
     personality |-> IF b.twin # {} THEN "personalityTraits" ELSE "Friendly and helpful",
     products |-> b.products,
     offers |-> b.offers]

\* a system prompt built again from the store for each provider request
SystemRebuiltPerStep(prompt, st, cardId) == buildSystemPrompt(ReadContext(st, cardId))

\* line 133: system: systemPrompt, the constant of line 108
SystemForStep(prompt, st, cardId) == prompt

\* lines 135-187: what each tool's execute returns
ToolOutput(name, b) ==
    CASE name = "getOffers" -> [kind |-> "offers", items |-> b.offers]
      [] name = "getProducts" -> [kind |-> "products", items |-> b.products]
      [] OTHER -> [kind |-> "booking", items |-> {}]

\* lines 131-134 (no stopWhen: one step) and 402-406 (stopWhen: stepCountIs(5))
StepLimit == IF stopWhenSet THEN MaxSteps ELSE 1

\* a stop condition that lets one more step through
StopWhenLate(n) == n = StepLimit + 1

\* stepCountIs: the loop stops once the turn has made that many steps
StopWhen(n) == n = StepLimit

\* a stop that is reported as a failure of the turn
AfterStopFailed == "Failed"

\* a stop that hands the turn back to the provider's response
AfterStopStreaming == "Streaming"

\* the loop stopped by stopWhen ends the response as a finished one
AfterStop == "Completed"

TwinIdle == twPhase \in { "Idle", "Completed", "Failed" }

TwinCardId == CHOOSE c \in CardIds : twReq = {c}

\* POST(req): req.json() gives the cardId and the queries start
TwinPost(cardId) ==
    /\ TwinIdle
    /\ twPosts < MaxTurns
    /\ twPosts' = twPosts + 1
    /\ twReq' = {cardId}
    /\ twOutcome' = "none"
    /\ bundle' = NoBundle
    /\ systemPrompt' = NoPrompt
    /\ twPhase' = "Reading"
    /\ twQueries' = 0
    /\ twSent' = NoPrompt
    /\ twSteps' = 0
    /\ twChunks' = 0
    /\ twPending' = NoCall
    /\ twToolExecs' = 0
    /\ twLoops' = 0
    /\ twHistory' = <<>>
    /\ twLastEvent' = "none"
    /\ UNCHANGED << store, stopWhenSet, providerMode, chatVars, offerVars, concVars, uiVars >>

\* the next query returns; after the last one the handler goes on without
\* waiting: it builds the system prompt (or throws) and calls streamText
TwinQuery ==
    /\ twPhase = "Reading"
    /\ LET table == Queries[twQueries + 1]
           b == ReadTable(bundle, store, TwinCardId, table) IN
        /\ store' = StoreAfterQuery(store, TwinCardId, table)
        /\ bundle' = b
        /\ twQueries' = twQueries + 1
        /\ IF twQueries + 1 < Len(Queries)
           THEN UNCHANGED << twOutcome, systemPrompt, twPhase >>
           ELSE IF PromptThrows(b)
           THEN /\ twOutcome' = "TypeError"
                /\ systemPrompt' = NoPrompt
                /\ twPhase' = "Idle"
           ELSE /\ twOutcome' = "stream"
                /\ systemPrompt' = buildSystemPrompt(b)
                /\ twPhase' = "Requesting"
    /\ UNCHANGED << stopWhenSet, providerMode, twReq, twSent, twSteps, twChunks,
                    twPending, twToolExecs, twLoops, twHistory, twLastEvent, twPosts,
                    chatVars, offerVars, concVars, uiVars >>

\* another request of the application changes the persisted rows
StoreWrite ==
    /\ store' \in Stores \ {store}
    /\ UNCHANGED << stopWhenSet, providerMode, twReq, twOutcome, bundle, systemPrompt,
                    twPhase, twQueries, twSent, twSteps, twChunks, twPending,
                    twToolExecs, twLoops, twHistory, twLastEvent, twPosts,
                    chatVars, offerVars, concVars, uiVars >>

\* the step's request {system, messages, tools} is sent and the provider
\* begins to respond
TwinRequest ==
    /\ twPhase = "Requesting"
    /\ twPhase' = "Streaming"
    /\ twSteps' = twSteps + 1
    /\ twSent' = SystemForStep(systemPrompt, store, TwinCardId)
    /\ twChunks' = 0
    /\ UNCHANGED << store, stopWhenSet, providerMode, twReq, twOutcome, bundle,
                    systemPrompt, twQueries, twPending, twToolExecs, twLoops,
                    twHistory, twLastEvent, twPosts, chatVars, offerVars, concVars, uiVars >>

TwinTextChunk ==
    /\ twPhase = "Streaming"
    /\ twChunks < MaxChunks
    /\ twChunks' = twChunks + 1
    /\ twLastEvent' = "text-delta"
    /\ UNCHANGED << store, stopWhenSet, providerMode, twReq, twOutcome, bundle,
                    systemPrompt, twPhase, twQueries, twSent, twSteps, twPending,
                    twToolExecs, twLoops, twHistory, twPosts, chatVars, offerVars, concVars, uiVars >>

\* the response asks for a declared tool
TwinToolCall(name) ==
    /\ twPhase = "Streaming"
    /\ twPhase' = "ToolPending"
    /\ twPending' = [name |-> name, step |-> twSteps]
    /\ twLastEvent' = "tool-call"
    /\ UNCHANGED << store, stopWhenSet, providerMode, twReq, twOutcome, bundle,
                    systemPrompt, twQueries, twSent, twSteps, twChunks, twToolExecs,
                    twLoops, twHistory, twPosts, chatVars, offerVars, concVars, uiVars >>

\* the tool runs, its result joins the history, and the loop goes on unless
\* stopWhen holds
TwinToolExecute ==
    /\ twPhase = "ToolPending"
    /\ twToolExecs' = twToolExecs + 1
    /\ twHistory' = Append(twHistory,
                           [tool |-> twPending.name,
                            output |-> ToolOutput(twPending.name, bundle)])
    /\ twPending' = NoCall
    /\ IF StopWhen(twSteps)
       THEN twPhase' = AfterStop /\ twLoops' = twLoops /\ twLastEvent' = "finish"
       ELSE twPhase' = "Requesting" /\ twLoops' = twLoops + 1
                /\ twLastEvent' = "tool-result"
    /\ UNCHANGED << store, stopWhenSet, providerMode, twReq, twOutcome, bundle,
                    systemPrompt, twQueries, twSent, twSteps, twChunks, twPosts,
                    chatVars, offerVars, concVars, uiVars >>

\* the response ends without a tool call
TwinFinish ==
    /\ twPhase = "Streaming"
    /\ providerMode = "free"
    /\ twPhase' = "Completed"
    /\ twLastEvent' = "finish"
    /\ UNCHANGED << store, stopWhenSet, providerMode, twReq, twOutcome, bundle,
                    systemPrompt, twQueries, twSent, twSteps, twChunks, twPending,
                    twToolExecs, twLoops, twHistory, twPosts, chatVars, offerVars, concVars, uiVars >>

\* the provider call fails, before or while it responds
TwinProviderError ==
    /\ twPhase \in { "Requesting", "Streaming" }
    /\ providerMode = "free"
    /\ twPhase' = "Failed"
    /\ twLastEvent' = "error"
    /\ IF twPhase = "Requesting"
       THEN /\ twSteps' = twSteps + 1
            /\ twSent' = SystemForStep(systemPrompt, store, TwinCardId)
       ELSE UNCHANGED << twSteps, twSent >>
    /\ UNCHANGED << store, stopWhenSet, providerMode, twReq, twOutcome, bundle,
                    systemPrompt, twQueries, twChunks, twPending, twToolExecs, twLoops,
                    twHistory, twPosts, chatVars, offerVars, concVars, uiVars >>

TwinInit ==
    /\ store \in Stores
    /\ stopWhenSet \in BOOLEAN
    /\ providerMode \in { "free", "alwaysTool" }
    /\ twReq = {}
    /\ twOutcome = "none"
    /\ bundle = NoBundle
    /\ systemPrompt = NoPrompt
    /\ twPhase = "Idle"
    /\ twQueries = 0
    /\ twSent = NoPrompt
    /\ twLastEvent = "none"
    /\ twSteps = 0
    /\ twChunks = 0
    /\ twPending = NoCall
    /\ twToolExecs = 0
    /\ twLoops = 0
    /\ twHistory = <<>>
    /\ twPosts = 0

TwinStep ==
    \/ TwinRequest
    \/ TwinTextChunk
    \/ \E name \in ToolNames : TwinToolCall(name)
    \/ TwinToolExecute
    \/ TwinFinish
    \/ TwinProviderError

TwinNext ==
    \/ \E c \in CardIds : TwinPost(c)
    \/ TwinQuery
    \/ StoreWrite
    \/ TwinStep

----------------------------------------------------------------------------
(* POST /api/ai/generate-offer, with the validation of the output *)

\* offerSchema, lines 24-32: the fields and what each must be
OfferFields ==
    { "title", "description", "discount", "conditions", "socialCaption",
      "seoKeywords", "urgencyText" }

OptionalOfferFields == { "conditions" }

\* a generated object may carry a key the schema does not declare
ObjectKeys == OfferFields \cup { "extra" }

\* a JSON value by its kind; "missing" is an absent key, "strings" an array of
\* strings
Kinds == { "missing", "string", "number", "strings" }

NoObject == [k \in ObjectKeys |-> "missing"]

DeclaredKind(f) ==
    CASE f = "discount" -> "number"
      [] f = "seoKeywords" -> "strings"
      [] OTHER -> "string"

\* the generated objects considered: a well-formed offer with up to MaxFlaws
\* keys changed to another kind
WellFormedOffer ==
    [k \in ObjectKeys |-> IF k \in OfferFields THEN DeclaredKind(k) ELSE "missing"]

\* the kinds tried for a key: absent, a string, and a number or, for the
\* keywords, an array of strings
ValueKinds(k) ==
    IF k = "seoKeywords" THEN { "missing", "string", "strings" }
    ELSE { "missing", "string", "number" }

Objects ==
    { o \in [ObjectKeys -> Kinds] :
        /\ \A k \in ObjectKeys : o[k] \in ValueKinds(k)
        /\ Cardinality({ k \in ObjectKeys : o[k] # WellFormedOffer[k] }) <= MaxFlaws }

\* a number field that also takes a numeric string
FieldOkCoercing(f, v) ==
    \/ v = DeclaredKind(f)
    \/ f \in OptionalOfferFields /\ v = "missing"
    \/ DeclaredKind(f) = "number" /\ v = "string"

\* z.string() / z.number() / z.array(z.string()) / .optional()
FieldOk(f, v) ==
    \/ v = DeclaredKind(f)
    \/ f \in OptionalOfferFields /\ v = "missing"

\* a parser that keeps state between uses and fails on every second one
safeParseStateful(o) ==
    LET issues == { f \in OfferFields : ~FieldOk(f, o[f]) } IN
    [success |-> issues = {} /\ offerPosts % 2 = 0,
     data |-> IF issues = {} /\ offerPosts % 2 = 0
              THEN [k \in ObjectKeys |-> IF k \in OfferFields THEN o[k] ELSE "missing"]
              ELSE NoObject]

\* offerSchema.safeParse: the issues found, and the data with undeclared keys
\* stripped
safeParse(o) ==
    LET issues == { f \in OfferFields : ~FieldOk(f, o[f]) } IN
    [success |-> issues = {},
     data |-> IF issues = {}
              THEN [k \in ObjectKeys |-> IF k \in OfferFields THEN o[k] ELSE "missing"]
              ELSE NoObject]

\* a request: whether req.json() parses, and whether body.businessName is set
OfferRequests == [jsonOk : BOOLEAN, businessName : BOOLEAN]

NoOfferRequest == [jsonOk |-> FALSE, businessName |-> FALSE]

\* what generateObject gave: nothing yet, a thrown error, or result.object
NoOutput == [kind |-> "none", object |-> NoObject]

ProviderOutputs ==
    { [kind |-> "throws", object |-> NoObject] }
    \cup { [kind |-> "object", object |-> o] : o \in Objects }

OfferError(code, msg) == [status |-> code, error |-> msg, data |-> NoObject]

\* lines 504-540
OfferResponse(r, out) ==
    IF ~r.jsonOk THEN OfferError(500, "Failed to generate content")
    ELSE IF ~r.businessName THEN OfferError(400, "Business name is required")
    ELSE IF out.kind = "throws" THEN OfferError(500, "Failed to generate content")
    ELSE IF ~safeParse(out.object).success
         THEN OfferError(500, "Generated content failed validation")
    ELSE [status |-> 200, error |-> "", data |-> safeParse(out.object).data]

\* POST(req): the input check, generateObject, the validation of its object
OfferPost(r, out) ==
    /\ offerPosts < MaxTurns
    /\ offerPosts' = offerPosts + 1
    /\ offerReq' = r
    /\ provOut' = out
    /\ LET resp == OfferResponse(r, out) IN
        /\ offerStatus' = resp.status
        /\ offerResp' = [error |-> resp.error, data |-> resp.data]
    /\ offerPrev' = [status |-> offerStatus, resp |-> offerResp]
    /\ offerSame' = (offerPosts > 0 /\ r = offerReq /\ out = provOut)
    /\ UNCHANGED << chatVars, twinVars, concVars, uiVars >>

OfferRest ==
    /\ offerReq = NoOfferRequest
    /\ provOut = NoOutput
    /\ offerStatus = 0
    /\ offerResp = [error |-> "", data |-> NoObject]
    /\ offerPrev = [status |-> 0, resp |-> [error |-> "", data |-> NoObject]]
    /\ offerSame = FALSE
    /\ offerPosts = 0

\* generateObject is reached only by a request that passed the input check
OutputsFor(r) == IF r.jsonOk /\ r.businessName THEN ProviderOutputs ELSE { NoOutput }

OfferNext == \E r \in OfferRequests : \E out \in OutputsFor(r) : OfferPost(r, out)

----------------------------------------------------------------------------
(* POST /api/chat for two clients at once: an invocation runs up to its next  *)
(* await and then another invocation may run                                  *)

Clients == { "a", "b" }

\* a message whose content is a string
PlainMessage ==
    [role |-> "user", parts |-> [present |-> FALSE, items |-> {}],
     content |-> [kind |-> "string", len |-> MaxTextLen + 1, items |-> {}]]

\* the requests sent: with or without a session, 100 or 101 plain messages
ConcRequests ==
    { [session |-> ss, jsonOk |-> TRUE,
       body |-> [isObject |-> TRUE,
                 messages |-> [present |-> TRUE, isArray |-> TRUE, n |-> k,
                               shapes |-> {PlainMessage}]]] :
        ss \in BOOLEAN, k \in MsgCounts }

\* the provider errors met: plain objects with a status code
ConcErrors == { e \in ErrorValues : e.kind = "object" /\ e.responseBody.kind = "undefined" }

\* what one invocation of POST holds: its request, its response and its stream
NoTurn ==
    [req |-> NoRequest, status |-> 0, error |-> <<>>, phase |-> "Idle",
     chunks |-> 0, written |-> <<>>, posts |-> 0]

\* lines 55-136 for one invocation
TurnPost(t, r, env) ==
    LET resp == PostResponse(r, env) IN
    [req |-> r, status |-> resp.status, error |-> resp.error,
     phase |-> IF resp.stream THEN "Streaming" ELSE "Idle",
     chunks |-> 0, written |-> <<>>, posts |-> t.posts + 1]

TurnChunk(t) ==
    [t EXCEPT !.chunks = @ + 1, !.written = Append(@, WriteEvent(TextDelta))]

TurnFinish(t) ==
    [t EXCEPT !.phase = "Completed", !.written = Append(@, WriteEvent(FinishEvent))]

TurnError(t, e) ==
    [t EXCEPT !.phase = "Failed", !.written = Append(@, WriteEvent(ErrorEvent(e)))]

\* one variable of the module used by every invocation
SlotShared(c) == "a"

\* session, body, parsed, messages, apiKey, openrouter and result are constants
\* of the invocation: each invocation has its own
Slot(c) == c

ConcPost(c, r) ==
    /\ turns[Slot(c)].phase # "Streaming"
    /\ turns[Slot(c)].posts < MaxTurns
    /\ turns' = [turns EXCEPT ![Slot(c)] = TurnPost(turns[Slot(c)], r, apiKeyEnv)]
    /\ concActor' = c
    /\ UNCHANGED << chatVars, twinVars, offerVars, uiVars >>

ConcTextChunk(c) ==
    /\ turns[Slot(c)].phase = "Streaming"
    /\ turns[Slot(c)].chunks < MaxChunks
    /\ turns' = [turns EXCEPT ![Slot(c)] = TurnChunk(turns[Slot(c)])]
    /\ concActor' = c
    /\ UNCHANGED << chatVars, twinVars, offerVars, uiVars >>

ConcFinish(c) ==
    /\ turns[Slot(c)].phase = "Streaming"
    /\ turns' = [turns EXCEPT ![Slot(c)] = TurnFinish(turns[Slot(c)])]
    /\ concActor' = c
    /\ UNCHANGED << chatVars, twinVars, offerVars, uiVars >>

ConcProviderError(c, e) ==
    /\ turns[Slot(c)].phase = "Streaming"
    /\ turns' = [turns EXCEPT ![Slot(c)] = TurnError(turns[Slot(c)], e)]
    /\ concActor' = c
    /\ UNCHANGED << chatVars, twinVars, offerVars, uiVars >>

ConcRest ==
    /\ turns = [c \in Clients |-> NoTurn]
    /\ concActor = "none"

ConcNext ==
    \/ \E c \in Clients, r \in ConcRequests : ConcPost(c, r)
    \/ \E c \in Clients : ConcTextChunk(c)
    \/ \E c \in Clients : ConcFinish(c)
    \/ \E c \in Clients, e \in ConcErrors : ConcProviderError(c, e)

----------------------------------------------------------------------------
(* MerchantTable *)

MaxMerchants == 21

itemsPerPage == 10

\* a text is a sequence of characters here
LowerChar(c) ==
    CASE c = "B" -> "b"
      [] c = "O" -> "o"
      [] OTHER -> c

toLowerCase(t) == [i \in 1..Len(t) |-> LowerChar(t[i])]

\* String.prototype.includes: q occurs in t as a run of characters
IncludesText(t, q) ==
    \E i \in 0..(Len(t) - Len(q)) : SubSeq(t, i + 1, i + Len(q)) = q

\* name, merchantId and address of the merchants used
MerchantKinds ==
    { [name |-> << "B", "o" >>, merchantId |-> << "1" >>, address |-> << "x" >>],
      [name |-> << "z" >>, merchantId |-> << "B", "O" >>, address |-> << "x" >>],
      [name |-> << "z" >>, merchantId |-> << "2" >>, address |-> << "o", "b", "o" >>],
      [name |-> << "z" >>, merchantId |-> << "3" >>, address |-> << "x" >>] }

\* a merchants list: n merchants, with ids 1..n, that repeat one or two kinds
KindPatterns == { << k >> : k \in MerchantKinds } \cup (MerchantKinds \X MerchantKinds)

MakeList(n, pat) ==
    [i \in 1..n |->
        LET k == pat[((i - 1) % Len(pat)) + 1] IN
        [id |-> i, name |-> k.name, merchantId |-> k.merchantId, address |-> k.address]]

MerchantLists == { MakeList(n, pat) : n \in 0..MaxMerchants, pat \in KindPatterns }

SearchTexts == { <<>>, << "b", "o" >>, << "B", "O" >>, << "x" >>, << "q" >> }

\* lines 26-33: the predicate of merchants.filter
MatchesSearch(m, q) ==
    LET query == toLowerCase(q) IN
    \/ IncludesText(toLowerCase(m.name), query)
    \/ IncludesText(toLowerCase(m.merchantId), query)
    \/ IncludesText(toLowerCase(m.address), query)

\* Array.prototype.filter, by that predicate
FilterMerchants(list, q) == SelectSeq(list, LAMBDA m : MatchesSearch(m, q))

\* Math.ceil(n / d) for n >= 0
CeilDiv(n, d) == (n + d - 1) \div d

Min(a, b) == IF a <= b THEN a ELSE b

Max(a, b) == IF a >= b THEN a ELSE b

\* Array.prototype.slice(from, to) with 0 <= from
Slice(list, from, to) ==
    IF from >= Len(list) THEN <<>> ELSE SubSeq(list, from + 1, Min(to, Len(list)))

\* pages that share their last row with the next page
PageOfOverlapping(list, p) == Slice(list, (p - 1) * itemsPerPage, p * itemsPerPage + 1)

\* lines 36-39: the rows of page p
PageOf(list, p) == Slice(list, (p - 1) * itemsPerPage, p * itemsPerPage)

filteredMerchants == FilterMerchants(tableMerchants, searchQuery)

totalPages == CeilDiv(Len(filteredMerchants), itemsPerPage)

paginatedMerchants == PageOf(filteredMerchants, currentPage)

\* lines 102-105: onChange of the search box
SetSearch(q) ==
    /\ q # searchQuery
    /\ searchQuery' = q
    /\ currentPage' = 1
    /\ UNCHANGED << tableMerchants, coreVars, treeVars, mapVars >>

\* lines 236-237: the previous button, disabled on page 1
PrevPage ==
    /\ currentPage # 1
    /\ currentPage' = Max(1, currentPage - 1)
    /\ UNCHANGED << tableMerchants, searchQuery, coreVars, treeVars, mapVars >>

\* lines 247-250: the next button, disabled from the last page on
NextPage ==
    /\ ~(currentPage >= totalPages)
    /\ currentPage' = Min(totalPages, currentPage + 1)
    /\ UNCHANGED << tableMerchants, searchQuery, coreVars, treeVars, mapVars >>

\* the parent renders the table with another merchants list: the state of the
\* component is kept
ReplaceMerchants(list) ==
    /\ list # tableMerchants
    /\ tableMerchants' = list
    /\ UNCHANGED << searchQuery, currentPage, coreVars, treeVars, mapVars >>

TableInit ==
    /\ tableMerchants \in MerchantLists
    /\ searchQuery = <<>>
    /\ currentPage = 1

TableRest ==
    /\ tableMerchants = <<>>
    /\ searchQuery = <<>>
    /\ currentPage = 1

TableNext ==
    \/ \E q \in SearchTexts : SetSearch(q)
    \/ PrevPage
    \/ NextPage
    \/ \E list \in MerchantLists : ReplaceMerchants(list)

----------------------------------------------------------------------------
(* GeoHierarchyTree *)

MaxClicks == 3

\* a node's children field is {} when absent, { <<ids>> } when present
NoChildren == {}

TreeA ==
    [ roots |-> << "australia" >>,
      nodes |-> [ australia |-> [type |-> "country", children |-> { << "nsw", "vic" >> }],
                  nsw |-> [type |-> "state", children |-> { << "sydney" >> }],
                  vic |-> [type |-> "state", children |-> { <<>> }],
                  sydney |-> [type |-> "city", children |-> { << "bondi" >> }],
                  bondi |-> [type |-> "postcode", children |-> NoChildren] ] ]

TreeB ==
    [ roots |-> << "qld", "perth" >>,
      nodes |-> [ qld |-> [type |-> "state", children |-> { << "brisbane" >> }],
                  brisbane |-> [type |-> "city", children |-> NoChildren],
                  perth |-> [type |-> "city", children |-> NoChildren] ] ]

TreeDatas == { TreeA, TreeB }

\* lines 18-20: the initial value of expanded
InitialExpanded == { "australia", "nsw", "sydney" }

\* node.children ?? []
ChildrenOf(d, id) ==
    IF d.nodes[id].children = NoChildren THEN <<>>
    ELSE CHOOSE c \in d.nodes[id].children : TRUE

\* line 35
hasChildren(d, id) ==
    /\ d.nodes[id].children # NoChildren
    /\ Len(ChildrenOf(d, id)) > 0

\* lines 34-91 and 106: the ids of the nodes rendered from a list of nodes
RECURSIVE RenderedNodes(_, _, _)
RenderedNodes(d, ids, exp) ==
    IF ids = <<>> THEN {}
    ELSE LET id == Head(ids) IN
         {id}
         \cup (IF hasChildren(d, id) /\ id \in exp
               THEN RenderedNodes(d, ChildrenOf(d, id), exp)
               ELSE {})
         \cup RenderedNodes(d, Tail(ids), exp)

\* an accordion: expanding a node collapses the others
toggleExclusive(prev, id) ==
    IF id \in prev THEN prev \ {id} ELSE {id}

\* lines 22-32
toggleExpanded(prev, id) ==
    IF id \in prev THEN prev \ {id} ELSE prev \cup {id}

\* lines 49-54: onClick of the row of a rendered node
ClickNode(id) ==
    /\ Len(treeClicks) < MaxClicks
    /\ id \in RenderedNodes(treeData, treeData.roots, expanded)
    /\ expanded' = IF hasChildren(treeData, id)
                   THEN toggleExpanded(expanded, id)
                   ELSE expanded
    /\ selectCalls' = IF onSelectGiven THEN Append(selectCalls, id) ELSE selectCalls
    /\ treeClicks' = Append(treeClicks, id)
    /\ UNCHANGED << treeData, onSelectGiven, coreVars, tableVars, mapVars >>

TreeInit ==
    /\ treeData \in TreeDatas
    /\ onSelectGiven \in BOOLEAN
    /\ expanded = InitialExpanded
    /\ treeClicks = <<>>
    /\ selectCalls = <<>>

TreeRest ==
    /\ treeData = TreeA
    /\ onSelectGiven = FALSE
    /\ expanded = InitialExpanded
    /\ treeClicks = <<>>
    /\ selectCalls = <<>>

TreeNext == \E id \in DOMAIN treeData.nodes : ClickNode(id)

----------------------------------------------------------------------------
(* MerchantMap *)

AllFilters == [active |-> TRUE, pending |-> TRUE, suspended |-> TRUE]

NoneToggled == [active |-> FALSE, pending |-> FALSE, suspended |-> FALSE]

MapRest ==
    /\ mapboxToken = FALSE
    /\ mapMerchants = <<>>
    /\ filters = AllFilters
    /\ selectedMerchant = {}
    /\ toggledOdd = NoneToggled
    /\ markerClickArg = {}

MaxMapMerchants == 3

\* the three statuses the component names, and one it does not
Statuses == { "live", "pending", "suspended", "draft" }

MapMerchantLists ==
    UNION { { [i \in 1..n |-> [id |-> i, status |-> st[i]]] : st \in [1..n -> Statuses] }
            : n \in 0..MaxMapMerchants }

FilterFlags == { "active", "pending", "suspended" }

\* a filter whose first two checkboxes are wired to each other's status
StatusShownSwapped(status, f) ==
    \/ status = "live" /\ f.pending
    \/ status = "pending" /\ f.active
    \/ status = "suspended" /\ f.suspended

\* lines 155-160: the predicate of merchants.filter
StatusShown(status, f) ==
    \/ status = "live" /\ f.active
    \/ status = "pending" /\ f.pending
    \/ status = "suspended" /\ f.suspended

mapFilteredMerchants ==
    SelectSeq(mapMerchants, LAMBDA m : StatusShown(m.status, filters))

\* lines 170-179: without a token the component returns the placeholder
MapRendered == mapboxToken

\* lines 193-235
Markers == IF MapRendered THEN mapFilteredMerchants ELSE <<>>

\* lines 237-253
PopupShown == MapRendered /\ selectedMerchant # {}

\* lines 330-336
IndicatorShown == MapRendered /\ Len(mapMerchants) > Len(mapFilteredMerchants)

IndicatorNumber == Len(mapMerchants) - Len(mapFilteredMerchants)

\* lines 162-168 and 199: a click on a marker
handleMarkerClick(m) ==
    /\ \E i \in 1..Len(Markers) : Markers[i] = m
    /\ selectedMerchant' = {m}
    /\ markerClickArg' = {m}
    /\ UNCHANGED << mapboxToken, mapMerchants, filters, toggledOdd, coreVars, tableVars, treeVars >>

\* line 242: the close button of the popup
PopupClose ==
    /\ PopupShown
    /\ selectedMerchant' = {}
    /\ UNCHANGED << mapboxToken, mapMerchants, filters, toggledOdd, markerClickArg,
                    coreVars, tableVars, treeVars >>

\* lines 291-322: onChange of a checkbox, whose checked prop is the flag, so
\* that e.target.checked is the flag's negation
ToggleFilter(flag) ==
    /\ MapRendered
    /\ LET checked == ~filters[flag] IN
       filters' = [filters EXCEPT ![flag] = checked]
    /\ toggledOdd' = [toggledOdd EXCEPT ![flag] = ~@]
    /\ UNCHANGED << mapboxToken, mapMerchants, selectedMerchant, markerClickArg,
                    coreVars, tableVars, treeVars >>

MapInit ==
    /\ mapboxToken \in BOOLEAN
    /\ mapMerchants \in MapMerchantLists
    /\ filters = AllFilters
    /\ selectedMerchant = {}
    /\ toggledOdd = NoneToggled
    /\ markerClickArg = {}

MapNext ==
    \/ \E i \in 1..Len(mapMerchants) : handleMarkerClick(mapMerchants[i])
    \/ PopupClose
    \/ \E flag \in FilterFlags : ToggleFilter(flag)

UiRest == TableRest /\ TreeRest /\ MapRest

----------------------------------------------------------------------------
(* Specifications: each handler on its own, the others at rest *)

ChatRest ==
    /\ apiKeyEnv = [set |-> FALSE, val |-> <<>>]
    /\ chatReq = NoRequest /\ chatStatus = 0 /\ chatError = <<>>
    /\ streamTextCalls = 0 /\ chatPhase = "Idle" /\ chatChunks = 0
    /\ lastError = NoError /\ errorText = <<>> /\ chatLogged = 0 /\ chatPosts = 0
    /\ chatProduced = <<>> /\ chatWritten = <<>>

TwinRest ==
    /\ store = EmptyStore /\ stopWhenSet = FALSE /\ providerMode = "free"
    /\ twReq = {} /\ twOutcome = "none" /\ bundle = NoBundle
    /\ systemPrompt = NoPrompt /\ twPhase = "Idle" /\ twSteps = 0 /\ twChunks = 0
    /\ twPending = NoCall /\ twToolExecs = 0 /\ twLoops = 0 /\ twHistory = <<>>
    /\ twPosts = 0
    /\ twQueries = 0 /\ twSent = NoPrompt /\ twLastEvent = "none"

InitChat == ChatInit /\ TwinRest /\ OfferRest /\ ConcRest /\ UiRest

InitTwin == ChatRest /\ TwinInit /\ OfferRest /\ ConcRest /\ UiRest

InitOffer == ChatRest /\ TwinRest /\ OfferRest /\ ConcRest /\ UiRest

InitConc == ChatInit /\ TwinRest /\ OfferRest /\ ConcRest /\ UiRest

CoreRest == ChatRest /\ TwinRest /\ OfferRest /\ ConcRest

InitTable == CoreRest /\ TableInit /\ TreeRest /\ MapRest

InitTree == CoreRest /\ TableRest /\ TreeInit /\ MapRest

InitMap == CoreRest /\ TableRest /\ TreeRest /\ MapInit

SpecChat == InitChat /\ [][ChatNext]_vars

SpecTwin == InitTwin /\ [][TwinNext]_vars

SpecOffer == InitOffer /\ [][OfferNext]_vars

SpecConc == InitConc /\ [][ConcNext]_vars

SpecTable == InitTable /\ [][TableNext]_vars

SpecTree == InitTree /\ [][TreeNext]_vars

SpecMap == InitMap /\ [][MapNext]_vars

\* the turn is one task: a step that stays possible is eventually taken
SpecTwinFair ==
    /\ SpecTwin
    /\ WF_vars(TwinRequest)
    /\ WF_vars(\E name \in ToolNames : TwinToolCall(name))
    /\ WF_vars(TwinToolExecute)

----------------------------------------------------------------------------
(* Properties of /api/chat *)

\* a text part (an element of parts, or of an array content) that carries a text
\* longer than 10,000 characters
HasLongTextPart(m) ==
    \/ m.parts.present /\ \E p \in m.parts.items : p.text.present /\ p.text.len > MaxTextLen
    \/ m.content.kind = "array"
          /\ \E p \in m.content.items : p.text.present /\ p.text.len > MaxTextLen

\* a request with more than 100 messages or with a text part over 10,000 characters
Oversize(r) ==
    /\ r.jsonOk /\ r.body.isObject
    /\ r.body.messages.present /\ r.body.messages.isArray
    /\ \/ r.body.messages.n > MaxMessages
       \/ \E m \in r.body.messages.shapes : HasLongTextPart(m)

\* C6 (as stated): a request with more than 100 messages, or with a text part
\* longer than 10,000 characters, is answered with HTTP 400 and no stream.
C6_OversizeAlways400 ==
    (chatPosts > 0 /\ Oversize(chatReq)) => (chatStatus = 400 /\ chatPhase = "Idle")

\* C6 (amended): handling a request with more than 100 messages, or with a text
\* part longer than 10,000 characters, never invokes streamText and opens no
\* stream; the response is 400 "Invalid request" when the request carries a
\* session and 401 "Unauthorized" when it does not.
C6_OversizeRejectedBeforeProvider ==
    [][ (chatPosts' = chatPosts + 1 /\ Oversize(chatReq')) =>
          /\ streamTextCalls' = streamTextCalls
          /\ chatPhase' = "Idle"
          /\ IF chatReq'.session
             THEN chatStatus' = 400 /\ chatError' = ErrInvalidRequest
             ELSE chatStatus' = 401 /\ chatError' = ErrUnauthorized ]_vars

\* an authenticated oversize request was rejected although the key is usable and
\* every message is otherwise valid
C6_Witness ==
    /\ chatPosts > 0
    /\ chatReq.session
    /\ chatReq.body.messages.n > MaxMessages
    /\ \A m \in chatReq.body.messages.shapes : messageSchema(m)
    /\ KeyShapeOk(apiKeyOf(apiKeyEnv))
    /\ chatStatus = 400
    /\ streamTextCalls = 0

\* two error values that differ at most in their raw body and raw message
SameButRaw(e1, e2) == e1.kind = e2.kind /\ e1.statusCode = e2.statusCode

\* C9: when the provider rejects the credentials (status 401) the text sent to
\* the client is the fixed authentication message: it is the same for every
\* error that differs only in raw body or raw message, and it is neither the
\* raw body nor the raw message.
C9_AuthErrorTextFixed ==
    (chatPhase = "Failed" /\ StatusCodeOf(lastError) = Num(401)) =>
        /\ errorText = AuthMsg
        /\ \A e2 \in ErrorValues :
              SameButRaw(lastError, e2) => getOpenRouterFriendlyError(e2) = errorText
        /\ errorText # lastError.responseBody.text
        /\ errorText # lastError.message

\* a 401 Error with a raw body and a raw message reached the client's onError
C9_Witness ==
    /\ chatPhase = "Failed"
    /\ lastError.kind = "Error"
    /\ StatusCodeOf(lastError) = Num(401)
    /\ lastError.responseBody.kind = "string"
    /\ lastError.message # <<>>
    /\ errorText = AuthMsg

\* C10: every error whose status is 429 is surfaced with a text that no error
\* of another status (auth rejection, generic, unknown) is surfaced with.
C10_RateLimitDistinct ==
    (chatPhase = "Failed" /\ StatusCodeOf(lastError) = Num(429)) =>
        \A e2 \in ErrorValues :
            StatusCodeOf(e2) # Num(429) => getOpenRouterFriendlyError(e2) # errorText

\* the request passes the session check, the JSON parse and the schema
ValidRequest(r) == r.session /\ r.jsonOk /\ chatRequestSchema(r.body)

\* the configured credential: set, not blank, with the OpenRouter prefix and
\* without the placeholder of the sample .env
WellShapedKey(env) ==
    /\ env.set
    /\ LET k == Trim(env.val) IN
        /\ k # <<>>
        /\ k[1] = "sk-or-v1-"
        /\ \A i \in 1..Len(k) : k[i] # "your-key"

ConfigErrors == { ErrKeyMissing, ErrKeyInvalid }

\* C12 (as stated): no request-handling path produces a configuration error:
\* the response to a request never reports the credential as missing or
\* malformed.
C12_NoConfigErrorAtRequestTime ==
    chatPosts > 0 => chatError \notin ConfigErrors

\* C12 (amended): the credential is checked while a request is handled, after
\* the session, JSON and schema checks: a valid request handled with a missing
\* or malformed credential gets HTTP 500 with a configuration error and no
\* provider call; with a well-shaped credential it gets the stream; and a
\* request that is not valid never gets a configuration error.
C12_CredentialCheckedPerRequest ==
    [][ chatPosts' = chatPosts + 1 =>
          IF ~ValidRequest(chatReq')
          THEN chatError' \notin ConfigErrors /\ streamTextCalls' = streamTextCalls
          ELSE IF WellShapedKey(apiKeyEnv)
          THEN chatStatus' = 200 /\ streamTextCalls' = streamTextCalls + 1
          ELSE /\ chatStatus' = 500
               /\ chatError' \in ConfigErrors
               /\ chatError' = ErrKeyMissing <=> (~apiKeyEnv.set \/ Trim(apiKeyEnv.val) = <<>>)
               /\ streamTextCalls' = streamTextCalls
               /\ chatPhase' = "Idle" ]_vars

\* a valid request was refused because the key holds the sample placeholder
C12_Witness ==
    /\ chatPosts > 0
    /\ ValidRequest(chatReq)
    /\ apiKeyEnv.set /\ StartsWith(Trim(apiKeyEnv.val), "sk-or-v1-")
    /\ chatStatus = 500
    /\ chatError = ErrKeyInvalid
    /\ streamTextCalls = 0

IsTerminal(ev) == ev.type \in { "finish", "error" }

C24_ProviderOnlyAfterAllChecks ==
    [][ /\ chatPosts' = chatPosts + 1 =>
            IF ValidRequest(chatReq') /\ WellShapedKey(apiKeyEnv)
            THEN /\ streamTextCalls' = streamTextCalls + 1
                 /\ chatPhase' = "Streaming"
                 /\ chatError' = <<>>
            ELSE /\ streamTextCalls' = streamTextCalls
                 /\ chatPhase' = "Idle"
                 /\ chatStatus' \in { 400, 401, 500 }
                 /\ chatError' # <<>>
        /\ chatPosts' = chatPosts => streamTextCalls' = streamTextCalls ]_vars

\* after a request that opened a stream, a request without a session was
\* refused although the key is usable and the body valid
C24_Witness ==
    /\ chatPosts = 2
    /\ streamTextCalls = 1
    /\ ~chatReq.session /\ chatReq.jsonOk /\ chatRequestSchema(chatReq.body)
    /\ WellShapedKey(apiKeyEnv)
    /\ chatStatus = 401
    /\ chatPhase = "Idle"

BlankKey(env) == ~env.set \/ Trim(env.val) = <<>>

\* C25: the response is that of the first failing check, in the order session,
\* JSON parse, schema, key presence, key shape: 401 Unauthorized, 400 Invalid
\* JSON, 400 Invalid request, 500 key not configured, 500 invalid key; a
\* request without a session gets 401 whatever its body and the key.
C25_FirstFailingCheck ==
    [][ chatPosts' = chatPosts + 1 =>
          LET r == chatReq' IN
          /\ ~r.session => (chatStatus' = 401 /\ chatError' = ErrUnauthorized)
          /\ (r.session /\ ~r.jsonOk) =>
                (chatStatus' = 400 /\ chatError' = ErrInvalidJson)
          /\ (r.session /\ r.jsonOk /\ ~chatRequestSchema(r.body)) =>
                (chatStatus' = 400 /\ chatError' = ErrInvalidRequest)
          /\ (ValidRequest(r) /\ BlankKey(apiKeyEnv)) =>
                (chatStatus' = 500 /\ chatError' = ErrKeyMissing)
          /\ (ValidRequest(r) /\ ~BlankKey(apiKeyEnv) /\ ~WellShapedKey(apiKeyEnv)) =>
                (chatStatus' = 500 /\ chatError' = ErrKeyInvalid) ]_vars

\* a request failing every check at once (no session, too many messages, no
\* key) got 401
C25_Witness ==
    /\ chatPosts > 0
    /\ ~chatReq.session
    /\ chatReq.jsonOk /\ ~chatRequestSchema(chatReq.body)
    /\ BlankKey(apiKeyEnv)
    /\ chatStatus = 401
    /\ chatError = ErrUnauthorized

----------------------------------------------------------------------------
(* Properties of /api/twin-chat *)

\* C2: in every state of a turn the number of provider steps, of tool
\* executions and of loops back to the provider is at most the configured
\* maximum step count, 5.
C2_StepsBounded ==
    /\ twSteps <= MaxSteps
    /\ twToolExecs <= MaxSteps
    /\ twLoops <= MaxSteps

\* a turn used all five steps, each with a tool execution
C2_Witness ==
    /\ stopWhenSet
    /\ twSteps = MaxSteps
    /\ twToolExecs = MaxSteps
    /\ twLoops = MaxSteps - 1

C8_NotFound ==
    (twOutcome # "none" /\ bundle.card = {}) =>
        /\ twOutcome = "NotFound"
        /\ systemPrompt = NoPrompt
        /\ twSteps = 0

\* C16: the context read changes no persisted record: every step of the
\* handler's read (the start of the request and each of the four queries), for
\* an id with a business record or without one, leaves the store of cards,
\* personas, products and promotions as it was.
C16_AssembleReadOnly ==
    [][ (twPosts' # twPosts \/ twQueries' # twQueries) => store' = store ]_vars

\* the four queries ran for an id without a business record while the store
\* holds the records of another business, persona included
C16_Witness ==
    /\ twQueries = Len(Queries)
    /\ bundle.card = {}
    /\ store.cards # {} /\ store.twins # {}
    /\ twOutcome = "TypeError"

OrchestratorStates == { "Requesting", "Streaming", "ToolPending", "Completed", "Failed" }

\* the transitions of section 4.3
ClaimedTransitions ==
    { << "Requesting", "Streaming" >>, << "Streaming", "ToolPending" >>,
      << "ToolPending", "Requesting" >>, << "Streaming", "Completed" >> }
    \cup { << p, "Failed" >> : p \in { "Requesting", "Streaming", "ToolPending" } }

TurnState ==
    << twPhase, twSteps, twChunks, twPending, twToolExecs, twLoops, twHistory,
       twLastEvent, twSent >>

C19_ContextFrozen ==
    /\ [](twSteps > 0 =>
            /\ twQueries = Len(Queries)
            /\ systemPrompt.built
            /\ systemPrompt.business = bundle.card
            /\ systemPrompt.products = bundle.products
            /\ systemPrompt.offers = bundle.offers
            /\ twSent = systemPrompt)
    /\ [](twPhase = "Reading" => twSteps = 0 /\ twSent = NoPrompt)
    /\ [][ (twPosts' = twPosts /\ twQueries = Len(Queries))
             => bundle' = bundle /\ systemPrompt' = systemPrompt ]_vars
    /\ [][ (twPosts' = twPosts /\ twSteps > 0 /\ twSteps' > twSteps)
             => twSent' = twSent ]_vars

\* a second provider request was sent after the store had lost the rows the
\* turn read
C19_Witness ==
    /\ twSteps >= 2
    /\ twPhase = "Streaming"
    /\ bundle.offers # {}
    /\ store = EmptyStore
    /\ twSent = systemPrompt
    /\ twSent.offers = bundle.offers

----------------------------------------------------------------------------
(* Properties of /api/ai/generate-offer *)

\* the declared shape of an offer, field by field
SatisfiesOfferSchema(o) ==
    /\ o["title"] = "string"
    /\ o["description"] = "string"
    /\ o["discount"] = "number"
    /\ o["conditions"] \in { "missing", "string" }
    /\ o["socialCaption"] = "string"
    /\ o["seoKeywords"] = "strings"
    /\ o["urgencyText"] = "string"

\* C7: the validator fails closed: a generated object with a required field
\* missing or of the wrong type makes the request fail (500, validation error)
\* with no object in the response, and an object is returned only when it
\* satisfies the schema.
C7_FailsClosed ==
    /\ offerStatus = 200 =>
          /\ SatisfiesOfferSchema(offerResp.data)
          /\ provOut.kind = "object" /\ SatisfiesOfferSchema(provOut.object)
    /\ (provOut.kind = "object" /\ ~SatisfiesOfferSchema(provOut.object)) =>
          /\ offerStatus = 500
          /\ offerResp.error = "Generated content failed validation"
          /\ offerResp.data = NoObject

\* an object whose only flaw is a discount given as a string was rejected
C7_Witness ==
    /\ provOut.kind = "object"
    /\ provOut.object["discount"] = "string"
    /\ \A f \in OfferFields \ { "discount" } : FieldOk(f, provOut.object[f])
    /\ offerStatus = 500
    /\ offerResp.data = NoObject

----------------------------------------------------------------------------
(* Properties of concurrent turns *)

\* the states one invocation can move to when it is the only one
SoloSucc(t, env) ==
    (IF t.phase # "Streaming" /\ t.posts < MaxTurns
     THEN { TurnPost(t, r, env) : r \in ConcRequests } ELSE {})
    \cup (IF t.phase = "Streaming" /\ t.chunks < MaxChunks THEN { TurnChunk(t) } ELSE {})
    \cup (IF t.phase = "Streaming"
          THEN { TurnFinish(t) } \cup { TurnError(t, e) : e \in ConcErrors } ELSE {})

\* C15: turns of different clients are independent: every step is a step of one
\* client's turn that this turn could take running alone, it leaves the other
\* client's request, response and event sequence as they were, and the
\* configuration the turns share (the credential) is never written.
C15_TurnsIndependent ==
    [][ /\ concActor' \in Clients
        /\ turns'[concActor'] \in SoloSucc(turns[concActor'], apiKeyEnv)
        /\ \A d \in Clients \ {concActor'} : turns'[d] = turns[d]
        /\ apiKeyEnv' = apiKeyEnv ]_vars

\* both turns stream at once: one in its second request with nothing written
\* yet, the other in its first with a chunk written
C15_Witness ==
    /\ turns["a"].phase = "Streaming" /\ turns["a"].posts = 1 /\ turns["a"].chunks = 1
    /\ turns["b"].phase = "Streaming" /\ turns["b"].posts = 2 /\ turns["b"].written = <<>>
    /\ concActor = "a"

----------------------------------------------------------------------------
(* Properties of MerchantTable *)

\* C26: after any sequence of search-text changes, previous/next clicks and
\* replacements of the merchants list, 1 <= currentPage <= max(1, totalPages).
C26_PageInRange ==
    /\ 1 <= currentPage
    /\ currentPage <= Max(1, totalPages)

\* the field, as it is written, contains the lower-cased search text
FieldContains(f, q) ==
    \E i \in 1..(Len(f) + 1) : \E j \in (i - 1)..Len(f) :
        SubSeq(f, i, j) = toLowerCase(q)

\* the name, merchantId or address, as written, contains the lower-cased
\* search text
MatchesAsWritten(m, q) ==
    \E f \in { m.name, m.merchantId, m.address } : FieldContains(f, q)

\* the lower-cased name, merchantId or address contains the lower-cased
\* search text
MatchesLowerCased(m, q) ==
    \E f \in { m.name, m.merchantId, m.address } : FieldContains(toLowerCase(f), q)

RowsOf(page) == { page[i] : i \in 1..Len(page) }

\* the pages 1..totalPages partition the merchants that match: each of them is
\* on exactly one page, the others on none, and a page holds between 1 and 10
\* merchants in the order of the list
PagesPartition(Matches(_, _)) ==
    /\ \A i \in 1..Len(tableMerchants) :
          LET m == tableMerchants[i]
              on == { p \in 1..(totalPages + 1) : m \in RowsOf(PageOf(filteredMerchants, p)) }
          IN  /\ Matches(m, searchQuery) => (Cardinality(on) = 1 /\ on \subseteq 1..totalPages)
              /\ ~Matches(m, searchQuery) => on = {}
    /\ \A p \in 1..totalPages :
          LET page == PageOf(filteredMerchants, p) IN
          /\ Len(page) <= itemsPerPage
          /\ Len(page) >= 1
          /\ \A i, j \in 1..Len(page) : i < j => page[i].id < page[j].id

\* C27 as stated: every merchant whose name, merchantId or address contains
\* the lower-cased query is on exactly one page p in 1..totalPages, each page
\* shows at most 10 merchants in list order, and merchants not matching the
\* query are on no page.
C27_PartitionByFieldsAsWritten == PagesPartition(MatchesAsWritten)

\* C27, amended: every merchant whose lower-cased name, merchantId or address
\* contains the lower-cased query is on exactly one page p in 1..totalPages,
\* each page shows at most 10 merchants in list order, and merchants not
\* matching in that sense are on no page.
C27_PagesPartitionFiltered == PagesPartition(MatchesLowerCased)

\* an upper-case search text over a list of 21 merchants, every second of
\* which matches it: two pages, the last one short
C27_Witness ==
    /\ Len(tableMerchants) = MaxMerchants
    /\ searchQuery = << "B", "O" >>
    /\ totalPages = 2
    /\ Len(PageOf(filteredMerchants, 2)) = 1
    /\ \E i \in 1..Len(tableMerchants) : ~MatchesLowerCased(tableMerchants[i], searchQuery)
    /\ \E i \in 1..Len(tableMerchants) :
          /\ MatchesLowerCased(tableMerchants[i], searchQuery)
          /\ ~MatchesAsWritten(tableMerchants[i], searchQuery)
    /\ currentPage = 2

----------------------------------------------------------------------------
(* Properties of GeoHierarchyTree *)

TimesClicked(id) == Cardinality({ i \in 1..Len(treeClicks) : treeClicks[i] = id })

\* the node is in the data and has at least one child
IsParent(id) ==
    /\ id \in DOMAIN treeData.nodes
    /\ \E c \in treeData.nodes[id].children : c # <<>>

\* C28: every click on a node with children flips that node's membership in
\* the expanded set and no other (an id is expanded exactly when it started
\* expanded and was flipped an even number of times, or started collapsed and
\* was flipped an odd number of times), a click on a node without children
\* flips nothing, and onSelect, when the prop is passed, has been called with
\* the clicked node on every click, in order.
C28_ExpandedFollowsClicks ==
    /\ \A id \in InitialExpanded \cup DOMAIN treeData.nodes :
          (id \in expanded) =
             ((id \in InitialExpanded) # (IsParent(id) /\ TimesClicked(id) % 2 = 1))
    /\ expanded \subseteq InitialExpanded \cup DOMAIN treeData.nodes
    /\ onSelectGiven => selectCalls = treeClicks

\* a node with children was clicked twice and a node without children once,
\* with onSelect passed
C28_Witness ==
    /\ onSelectGiven
    /\ \E id \in DOMAIN treeData.nodes : IsParent(id) /\ TimesClicked(id) = 2
    /\ \E id \in DOMAIN treeData.nodes : ~IsParent(id) /\ TimesClicked(id) = 1
    /\ expanded = InitialExpanded

----------------------------------------------------------------------------
(* Properties of MerchantMap *)

\* live <-> active, pending <-> pending, suspended <-> suspended
FlagOf(status) ==
    CASE status = "live" -> "active"
      [] status = "pending" -> "pending"
      [] status = "suspended" -> "suspended"

\* the merchants whose status has a flag, and the flag is enabled
EnabledMerchants ==
    { mapMerchants[i] : i \in { j \in 1..Len(mapMerchants) :
          /\ mapMerchants[j].status \in { "live", "pending", "suspended" }
          /\ filters[FlagOf(mapMerchants[j].status)] } }

ShownMerchants == { Markers[i] : i \in 1..Len(Markers) }

\* the markers are the merchants with an enabled flag, once each and in the
\* order of the list; a flag is off exactly when its own checkbox was toggled
\* an odd number of times; the indicator is shown exactly when N = total
\* minus shown is positive, and displays N
MapFilterHolds ==
    /\ ShownMerchants = EnabledMerchants
    /\ \A i, j \in 1..Len(Markers) : i < j => Markers[i].id < Markers[j].id
    /\ \A flag \in FilterFlags : filters[flag] = ~toggledOdd[flag]
    /\ LET N == Len(mapMerchants) - Cardinality(ShownMerchants) IN
       /\ IndicatorShown <=> N > 0
       /\ IndicatorShown => IndicatorNumber = N

\* C29 as stated: after any sequence of checkbox toggles the markers shown are
\* exactly the merchants whose status flag is enabled, each toggle changes
\* only its own flag, and the '+N' indicator is shown exactly when N = total
\* merchants minus shown merchants is greater than 0 and displays that N.
C29_FilterAlways == MapFilterHolds

\* C29, amended: the same, when the Mapbox token is configured (without it
\* the component shows a placeholder: no markers, no checkboxes, no
\* indicator).
C29_FilterWhenTokenConfigured == mapboxToken => MapFilterHolds

\* the pending checkbox toggled off and the others as they were, over a list
\* with a live and a pending merchant: one marker hidden, '+N' shown
C29_Witness ==
    /\ mapboxToken
    /\ toggledOdd = [active |-> FALSE, pending |-> TRUE, suspended |-> FALSE]
    /\ \E i, j \in 1..Len(mapMerchants) :
          /\ mapMerchants[i].status = "live"
          /\ mapMerchants[j].status = "pending"
    /\ Len(Markers) >= 1
    /\ IndicatorShown
    /\ IndicatorNumber >= 1

\* C30: a popup is shown only for a merchant that is among the displayed
\* markers.
C30_PopupOnlyForDisplayed ==
    PopupShown => selectedMerchant \subseteq ShownMerchants

====
